---- MODULE Spec2Model ----
(***************************************************************************)
(* Model of the TecLegacy marketplace: the cart views, the checkout and    *)
(* payment views (cart/views.py) and the chatbot view (chatbot/views.py).  *)
(* Every view that handles one request is one action; checkout, which      *)
(* issues several separate store statements with no transaction around     *)
(* them, is a process whose steps are the statements.                      *)
(***************************************************************************)
EXTENDS Integers, Sequences, FiniteSets, TLC

\* ------------------------------------------------------------------ bounds
MaxQty      == 2   \* largest quantity a CartItem is let grow to
MaxDebt     == 0   \* a CartItem quantity is let sink to -MaxDebt
MaxItemId   == 2   \* CartItem ids handed out (auto-increment)
MaxOrders   == 1   \* Orders created
MaxSessions == 1   \* anonymous sessions created
MaxMissing  == 2   \* checkout forms leave out at most this many fields
MaxLog      == 1   \* ChatbotQuery rows written

Prices      == {1, 2}            \* the prices the catalog gives a product
Users       == {"u1", "u2"}
NoUser      == "anon"            \* request.user.is_authenticated is False
NoSession   == 0                 \* request.session.session_key is None
Products    == {"p1", "p2"}      \* products with is_available = True
Unavailable == {"p3"}            \* a product with is_available = False
Procs       == {1, 2}            \* workers that can run checkout at once
Methods     == {"GET", "POST"}
Actions     == {"increase", "decrease", "remove", "other"}
QtyArgs     == {-1, 0, 1, 2}     \* the quantity parameter of add_to_cart
SuppliedIds == {"", "EXT-1"}     \* the payment_id parameter ("" = absent)
GeneratedIds == {"PAY-A", "PAY-B"} \* what uuid4 may yield

VARIABLES
    price,        \* Product.price of every product
    nSessions,    \* session keys created so far (keys are 1..nSessions)
    carts,        \* Cart rows, by id: [user, session_id]
    cartItems,    \* CartItem rows: [id, cart, product, quantity]
    nextItemId,   \* next CartItem id
    orders,       \* Order rows, by id
    orderItems,   \* OrderItem rows, in insertion order
    ck,           \* the checkout request each worker is in
    last,         \* the last request answered: [op, arg, tag, result]
    chatLog,      \* ChatbotQuery rows, in insertion order: [query, response]
    chatReq,      \* the last chatbot request
    chatResp      \* the JSON it was answered with

shop == <<price, nSessions, carts, cartItems, nextItemId, orders, orderItems, ck, last>>
chat == <<chatLog, chatReq, chatResp>>
vars == <<shop, chat>>

\* ------------------------------------------------------------ requests
\* who a request comes from: the logged-in user (or NoUser) and the session
\* key of its cookie (or NoSession)
Requests == [user : Users \cup {NoUser}, sk : 0..MaxSessions]

KnownRequests == {r \in Requests : r.sk <= nSessions}

\* arg is the number the answer is about (a cart, a quantity, an order), tag the
\* word (an action, a field)
Resp(op, arg, tag, result) == [op |-> op, arg |-> arg, tag |-> tag, result |-> result]

\* -------------------------------------------------- _get_or_create_cart
IsAuthenticated(r) == r.user # NoUser

\* request.session.create() when the request has no session key
NeedsSession(r) == ~IsAuthenticated(r) /\ r.sk = NoSession

SessionKeyOf(r) == IF NeedsSession(r) THEN nSessions + 1 ELSE r.sk

SessionsAfter(r) == IF NeedsSession(r) THEN nSessions + 1 ELSE nSessions

\* get_or_create keyed by the session although the user is logged in
MatchingCartsBySession(r) ==
    {c \in DOMAIN carts : carts[c].session_id = r.sk}

\* the rows Cart.objects.get_or_create looks up
MatchingCarts(r) ==
    IF IsAuthenticated(r)
    THEN {c \in DOMAIN carts : carts[c].user = r.user}
    ELSE {c \in DOMAIN carts : carts[c].session_id = SessionKeyOf(r)}

NewCartRow(r) ==
    IF IsAuthenticated(r)
    THEN [user |-> r.user, session_id |-> NoSession]
    ELSE [user |-> NoUser, session_id |-> SessionKeyOf(r)]

CartsAfter(r) ==
    IF MatchingCarts(r) = {} THEN Append(carts, NewCartRow(r)) ELSE carts

CartOf(r) ==
    IF MatchingCarts(r) = {} THEN Len(carts) + 1
    ELSE CHOOSE c \in MatchingCarts(r) : TRUE

CanResolve(r) == NeedsSession(r) => nSessions < MaxSessions

\* ------------------------------------------------------------- cart rows
ItemsOf(c) == {i \in cartItems : i.cart = c}

\* CartItem.get_cost
GetCost(i) == i.quantity * price[i.product]

RECURSIVE SumCost(_)
SumCost(S) ==
    IF S = {} THEN 0
    ELSE LET x == CHOOSE y \in S : TRUE IN GetCost(x) + SumCost(S \ {x})

RECURSIVE SumQuantity(_)
SumQuantity(S) ==
    IF S = {} THEN 0
    ELSE LET x == CHOOSE y \in S : TRUE IN x.quantity + SumQuantity(S \ {x})

\* Cart.get_total_price / Cart.get_total_items
GetTotalPrice(c) == SumCost(ItemsOf(c))
GetTotalItems(c) == SumQuantity(ItemsOf(c))

\* ------------------------------------------------------------ cart_detail
CartDetail(r) ==
    /\ CanResolve(r)
    /\ carts' = CartsAfter(r)
    /\ nSessions' = SessionsAfter(r)
    /\ last' = Resp("cart_detail", CartOf(r), "", "ok")
    /\ UNCHANGED <<price, cartItems, nextItemId, orders, orderItems, ck>>

\* ------------------------------------------------------------ add_to_cart
\* quantity = quantity on the row found: the new number replaces the old one
AddedItemsReplaced(c, p, q) ==
    IF \E i \in ItemsOf(c) : i.product = p
    THEN {IF i.cart = c /\ i.product = p
          THEN [i EXCEPT !.quantity = q] ELSE i : i \in cartItems}
    ELSE cartItems \cup {[id |-> nextItemId, cart |-> c, product |-> p, quantity |-> q]}

\* quantity += quantity on the row found, else a new row with the quantity
AddedItems(c, p, q) ==
    IF \E i \in ItemsOf(c) : i.product = p
    THEN {IF i.cart = c /\ i.product = p
          THEN [i EXCEPT !.quantity = i.quantity + q] ELSE i : i \in cartItems}
    ELSE cartItems \cup {[id |-> nextItemId, cart |-> c, product |-> p, quantity |-> q]}

AddToCart(r, p, q, ajax) ==
    IF p \notin Products
    THEN /\ last' = Resp("add_to_cart", 0, "", "notfound")
         /\ UNCHANGED <<price, nSessions, carts, cartItems, nextItemId, orders,
                        orderItems, ck>>
    ELSE LET c == CartOf(r)
             existing == \E i \in ItemsOf(c) : i.product = p
         IN /\ CanResolve(r)
            /\ existing \/ nextItemId <= MaxItemId
            /\ \A i \in AddedItems(c, p, q) :
                   i.quantity >= 0 - MaxDebt /\ i.quantity <= MaxQty
            /\ carts' = CartsAfter(r)
            /\ nSessions' = SessionsAfter(r)
            /\ cartItems' = AddedItems(c, p, q)
            /\ nextItemId' = IF existing THEN nextItemId ELSE nextItemId + 1
            /\ last' = Resp("add_to_cart", q, "", IF ajax THEN "ok" ELSE "redirect")
            /\ UNCHANGED <<price, orders, orderItems, ck>>

\* ------------------------------------------------------------ update_cart
ItemById(id) == {i \in cartItems : i.id = id}

\* decrease guarded by quantity > 0 instead of quantity > 1
UpdatedItemsFloorZero(item, action) ==
    CASE action = "increase" ->
            (cartItems \ {item}) \cup {[item EXCEPT !.quantity = item.quantity + 1]}
      [] action = "decrease" ->
            IF item.quantity > 0
            THEN (cartItems \ {item}) \cup {[item EXCEPT !.quantity = item.quantity - 1]}
            ELSE cartItems \ {item}
      [] action = "remove" -> cartItems \ {item}
      [] OTHER -> cartItems

\* the rows after the branch the action selects, for the row found
UpdatedItems(item, action) ==
    CASE action = "increase" ->
            (cartItems \ {item}) \cup {[item EXCEPT !.quantity = item.quantity + 1]}
      [] action = "decrease" ->
            IF item.quantity > 1
            THEN (cartItems \ {item}) \cup {[item EXCEPT !.quantity = item.quantity - 1]}
            ELSE cartItems \ {item}
      [] action = "remove" -> cartItems \ {item}
      [] OTHER -> cartItems

\* 'removed': True in the answer of the branches that delete
Removes(item, action) ==
    \/ action = "decrease" /\ ~(item.quantity > 1)
    \/ action = "remove"

UpdateCart(r, id, action, ajaxPost) ==
    /\ UNCHANGED <<price, nSessions, carts, nextItemId, orders, orderItems, ck>>
    /\ IF ~ajaxPost
       THEN /\ last' = Resp("update_cart", 0, "", "fail")
            /\ UNCHANGED cartItems
       ELSE IF ItemById(id) = {}
       THEN /\ last' = Resp("update_cart", 0, "", "notfound")
            /\ UNCHANGED cartItems
       ELSE LET item == CHOOSE i \in ItemById(id) : TRUE
            IN /\ \A i \in UpdatedItems(item, action) : i.quantity <= MaxQty
               /\ cartItems' = UpdatedItems(item, action)
               /\ last' = Resp("update_cart", 0, action,
                               IF Removes(item, action) THEN "removed" ELSE "ok")

\* ------------------------------------------------------------ catalog
\* a price edit in the catalog store
ChangePrice(p, v) ==
    /\ price[p] # v
    /\ price' = [price EXCEPT ![p] = v]
    /\ UNCHANGED <<nSessions, carts, cartItems, nextItemId, orders, orderItems, ck, last>>

\* --------------------------------------------------------------- checkout
RequiredFields ==
    <<"first_name", "last_name", "email", "phone", "address", "city", "country",
      "postal_code", "payment_method">>

FieldNames == {RequiredFields[k] : k \in DOMAIN RequiredFields}

\* the sets of at most n fields
RECURSIVE FieldSets(_)
FieldSets(n) ==
    IF n = 0 THEN {{}}
    ELSE LET S == FieldSets(n - 1) IN S \cup {m \cup {a} : m \in S, a \in FieldNames}

\* a form is the set of fields request.POST.get finds non-empty
Forms == {FieldNames \ m : m \in FieldSets(MaxMissing)}

\* the validation loop keeps going and reports the last field it misses
LastMissing(form) ==
    LET k == CHOOSE j \in DOMAIN RequiredFields :
                 /\ RequiredFields[j] \notin form
                 /\ \A h \in (j + 1)..Len(RequiredFields) : RequiredFields[h] \in form
    IN RequiredFields[k]

\* the field the validation loop stops at
FirstMissing(form) ==
    LET k == CHOOSE j \in DOMAIN RequiredFields :
                 /\ RequiredFields[j] \notin form
                 /\ \A h \in 1..(j - 1) : RequiredFields[h] \in form
    IN RequiredFields[k]

\* cart.items.all(), in id order
RECURSIVE InIdOrder(_)
InIdOrder(S) ==
    IF S = {} THEN <<>>
    ELSE LET x == CHOOSE y \in S : \A z \in S : y.id <= z.id
         IN <<x>> \o InIdOrder(S \ {x})

Idle == [pc |-> "idle", cart |-> 0, order |-> 0, todo |-> <<>>]

\* lines 130-146: login_required, the cart, the empty check, the validation
CheckoutRequest(w, r, method, form) ==
    /\ ck[w].pc = "idle"
    /\ UNCHANGED <<price, cartItems, nextItemId, orders, orderItems>>
    /\ IF ~IsAuthenticated(r)
       THEN /\ last' = Resp("checkout", 0, "", "login")
            /\ UNCHANGED <<nSessions, carts, ck>>
       ELSE /\ carts' = CartsAfter(r)
            /\ UNCHANGED nSessions
            /\ IF ItemsOf(CartOf(r)) = {}
               THEN /\ last' = Resp("checkout", 0, "", "empty")
                    /\ UNCHANGED ck
               ELSE IF method # "POST"
               THEN /\ last' = Resp("checkout", 0, "", "form")
                    /\ UNCHANGED ck
               ELSE IF form # FieldNames
               THEN /\ last' = Resp("checkout", 0, FirstMissing(form), "invalid")
                    /\ UNCHANGED ck
               ELSE /\ ck' = [ck EXCEPT ![w] = [Idle EXCEPT !.pc = "validated",
                                                             !.cart = CartOf(r)]]
                    /\ UNCHANGED last

\* the Order row Order.objects.create inserts
NewOrder(c) ==
    [user |-> carts[c].user, total_paid |-> GetTotalPrice(c),
     payment_status |-> "pending", status |-> "pendiente", payment_reference |-> ""]

\* the Order is looked up by cart first: a worker reuses the Order another
\* worker has open for the same cart
CheckoutCreateOrderShared(w) ==
    /\ ck[w].pc = "validated"
    /\ IF \E v \in Procs : v # w /\ ck[v].order # 0 /\ ck[v].cart = ck[w].cart
       THEN /\ ck' = [ck EXCEPT ![w].pc = "ordered",
                                ![w].order = ck[CHOOSE v \in Procs :
                                    v # w /\ ck[v].order # 0 /\ ck[v].cart = ck[w].cart].order]
            /\ UNCHANGED orders
       ELSE /\ orders' = Append(orders, NewOrder(ck[w].cart))
            /\ ck' = [ck EXCEPT ![w].pc = "ordered", ![w].order = Len(orders) + 1]
    /\ UNCHANGED <<price, nSessions, carts, cartItems, nextItemId, orderItems, last>>

\* lines 149-161
CheckoutCreateOrder(w) ==
    /\ ck[w].pc = "validated"
    /\ orders' = Append(orders, NewOrder(ck[w].cart))
    /\ ck' = [ck EXCEPT ![w].pc = "ordered", ![w].order = Len(orders) + 1]
    /\ UNCHANGED <<price, nSessions, carts, cartItems, nextItemId, orderItems, last>>

\* line 164: the queryset is evaluated when the loop starts
CheckoutFetchItems(w) ==
    /\ ck[w].pc = "ordered"
    /\ ck' = [ck EXCEPT ![w].pc = "copying", ![w].todo = InIdOrder(ItemsOf(ck[w].cart))]
    /\ UNCHANGED <<price, nSessions, carts, cartItems, nextItemId, orders, orderItems, last>>

\* quantity is left out of the create call: the row gets the column default
NewOrderItemUnit(o, item) ==
    [order |-> o, product |-> item.product, price |-> price[item.product],
     quantity |-> 1]

\* the OrderItem row of one cart line; item.product is read when the row is made
NewOrderItem(o, item) ==
    [order |-> o, product |-> item.product, price |-> price[item.product],
     quantity |-> item.quantity]

\* lines 165-170, one turn of the loop
CheckoutCreateItem(w) ==
    /\ ck[w].pc = "copying"
    /\ ck[w].todo # <<>>
    /\ orderItems' = Append(orderItems, NewOrderItem(ck[w].order, Head(ck[w].todo)))
    /\ ck' = [ck EXCEPT ![w].todo = Tail(ck[w].todo)]
    /\ UNCHANGED <<price, nSessions, carts, cartItems, nextItemId, orders, last>>

\* lines 173-176
CheckoutClear(w) ==
    /\ ck[w].pc = "copying"
    /\ ck[w].todo = <<>>
    /\ cartItems' = cartItems \ ItemsOf(ck[w].cart)
    /\ ck' = [ck EXCEPT ![w] = Idle]
    /\ last' = Resp("checkout", ck[w].order, "", "created")
    /\ UNCHANGED <<price, nSessions, carts, nextItemId, orders, orderItems>>

\* a statement after the Order insert raises (the store is locked, the worker
\* dies): the view is not in a transaction, what was written stays
CheckoutAbort(w) ==
    /\ ck[w].pc \in {"ordered", "copying"}
    /\ ck' = [ck EXCEPT ![w] = Idle]
    /\ last' = Resp("checkout", ck[w].order, "", "error")
    /\ UNCHANGED <<price, nSessions, carts, cartItems, nextItemId, orders, orderItems>>

\* ---------------------------------------------------------------- payment
\* the lookup without user=request.user
FindOrderOfAnyUser(r, o) == o \in DOMAIN orders

\* get_object_or_404(Order, id=order_id, user=request.user)
FindOrder(r, o) == o \in DOMAIN orders /\ orders[o].user = r.user

\* showing the payment step marks the order as being processed
PaymentProcessMarks(r, o) ==
    /\ UNCHANGED <<price, nSessions, carts, cartItems, nextItemId, orderItems, ck>>
    /\ IF ~IsAuthenticated(r)
       THEN last' = Resp("payment_process", 0, "", "login") /\ UNCHANGED orders
       ELSE IF ~FindOrder(r, o)
       THEN last' = Resp("payment_process", 0, "", "notfound") /\ UNCHANGED orders
       ELSE IF orders[o].payment_status = "completado"
       THEN last' = Resp("payment_process", o, "", "to_success") /\ UNCHANGED orders
       ELSE /\ orders' = [orders EXCEPT ![o].status = "procesando"]
            /\ last' = Resp("payment_process", o, "", "ok")

\* lines 201-218
PaymentProcess(r, o) ==
    /\ UNCHANGED <<price, nSessions, carts, cartItems, nextItemId, orders, orderItems, ck>>
    /\ last' = IF ~IsAuthenticated(r) THEN Resp("payment_process", 0, "", "login")
               ELSE IF ~FindOrder(r, o) THEN Resp("payment_process", 0, "", "notfound")
               ELSE IF orders[o].payment_status = "completado"
               THEN Resp("payment_process", o, "", "to_success")
               ELSE Resp("payment_process", o, "", "ok")

\* the payment also charges what the cart holds now
ExecutedOrderRetotalled(order, payment_id, generated) ==
    [order EXCEPT !.payment_status = "completado",
                  !.payment_reference = IF payment_id = "" THEN generated ELSE payment_id,
                  !.status = "procesando",
                  !.total_paid = GetTotalPrice(CartOf([user |-> order.user, sk |-> NoSession]))]

\* the reference is the posted payment_id as it is, empty when none was posted
ExecutedOrderKeepsId(order, payment_id, generated) ==
    [order EXCEPT !.payment_status = "completado",
                  !.payment_reference = payment_id,
                  !.status = "procesando"]

\* lines 228-238
ExecutedOrder(order, payment_id, generated) ==
    [order EXCEPT !.payment_status = "completado",
                  !.payment_reference = IF payment_id = "" THEN generated ELSE payment_id,
                  !.status = "procesando"]

PaymentExecute(r, o, method, payment_id, generated) ==
    /\ UNCHANGED <<price, nSessions, carts, cartItems, nextItemId, orderItems, ck>>
    /\ IF ~IsAuthenticated(r)
       THEN last' = Resp("payment_execute", 0, "", "login") /\ UNCHANGED orders
       ELSE IF method # "POST"
       THEN last' = Resp("payment_execute", 0, "", "to_process") /\ UNCHANGED orders
       ELSE IF ~FindOrder(r, o)
       THEN last' = Resp("payment_execute", 0, "", "notfound") /\ UNCHANGED orders
       ELSE /\ orders' = [orders EXCEPT ![o] = ExecutedOrder(orders[o], payment_id, generated)]
            /\ last' = Resp("payment_execute", o, "", "to_success")

PaymentSuccess(r, o) ==
    /\ UNCHANGED <<price, nSessions, carts, cartItems, nextItemId, orders, orderItems, ck>>
    /\ last' = IF ~IsAuthenticated(r) THEN Resp("payment_success", 0, "", "login")
               ELSE IF ~FindOrder(r, o) THEN Resp("payment_success", 0, "", "notfound")
               ELSE Resp("payment_success", o, "", "ok")

\* the cancellation also resets the fulfillment status
CancelledOrderReset(order) ==
    [order EXCEPT !.payment_status = "fallido", !.status = "pendiente"]

\* lines 265-266
CancelledOrder(order) == [order EXCEPT !.payment_status = "fallido"]

PaymentCancel(r, o) ==
    /\ UNCHANGED <<price, nSessions, carts, cartItems, nextItemId, orderItems, ck>>
    /\ IF ~IsAuthenticated(r)
       THEN last' = Resp("payment_cancel", 0, "", "login") /\ UNCHANGED orders
       ELSE IF ~FindOrder(r, o)
       THEN last' = Resp("payment_cancel", 0, "", "notfound") /\ UNCHANGED orders
       ELSE /\ orders' = [orders EXCEPT ![o] = CancelledOrder(orders[o])]
            /\ last' = Resp("payment_cancel", o, "", "to_checkout")

\* ======================================================================
\* The chatbot (chatbot/views.py).  Texts are sequences of characters.
\* ======================================================================
Digits == <<"0", "1", "2", "3", "4", "5", "6", "7", "8", "9">>
Upper  == <<"A", "B", "C", "D", "E", "F", "G", "H", "I", "J", "K", "L", "M",
            "N", "O", "P", "Q", "R", "S", "T", "U", "V", "W", "X", "Y", "Z">>
Lowers == <<"a", "b", "c", "d", "e", "f", "g", "h", "i", "j", "k", "l", "m",
            "n", "o", "p", "q", "r", "s", "t", "u", "v", "w", "x", "y", "z">>

\* str.lower, character by character
LowerChar(c) ==
    IF \E k \in DOMAIN Upper : Upper[k] = c
    THEN Lowers[CHOOSE k \in DOMAIN Upper : Upper[k] = c]
    ELSE c

Lower(text) == [k \in DOMAIN text |-> LowerChar(text[k])]

\* pat in text
StartsAt(text, pat, k) ==
    /\ k + Len(pat) - 1 <= Len(text)
    /\ \A j \in 1..Len(pat) : text[k + j - 1] = pat[j]

Contains(text, pat) == \E k \in 1..(Len(text) + 1) : StartsAt(text, pat, k)

\* name__icontains=pat
IContains(text, pat) == Contains(Lower(text), Lower(pat))

\* category_keywords, in the order of the dict: the trigger and the category
\* name ("" for None)
CategoryKeywords == <<    [keyword |-> <<"p", "o", "r", "t", "a", "t", "i", "l">>, category |-> "Portátiles Gaming"],
    [keyword |-> <<"l", "a", "p", "t", "o", "p">>, category |-> "Portátiles Gaming"],
    [keyword |-> <<"n", "o", "t", "e", "b", "o", "o", "k">>, category |-> "Portátiles Gaming"],
    [keyword |-> <<"g", "a", "m", "i", "n", "g">>, category |-> ""],
    [keyword |-> <<"j", "u", "e", "g", "o">>, category |-> ""],
    [keyword |-> <<"t", "e", "c", "l", "a", "d", "o">>, category |-> "Periféricos"],
    [keyword |-> <<"m", "o", "u", "s", "e">>, category |-> "Periféricos"],
    [keyword |-> <<"r", "a", "t", "o", "n">>, category |-> "Periféricos"],
    [keyword |-> <<"a", "u", "r", "i", "c", "u", "l", "a", "r">>, category |-> "Periféricos"],
    [keyword |-> <<"c", "a", "s", "c", "o", "s">>, category |-> "Periféricos"],
    [keyword |-> <<"t", "a", "r", "j", "e", "t", "a">>, category |-> "Componentes"],
    [keyword |-> <<"g", "r", "a", "f", "i", "c", "a">>, category |-> "Componentes"],
    [keyword |-> <<"p", "r", "o", "c", "e", "s", "a", "d", "o", "r">>, category |-> "Componentes"],
    [keyword |-> <<"c", "p", "u">>, category |-> "Componentes"],
    [keyword |-> <<"p", "l", "a", "c", "a">>, category |-> "Componentes"],
    [keyword |-> <<"m", "o", "n", "i", "t", "o", "r">>, category |-> "Monitores"],
    [keyword |-> <<"p", "a", "n", "t", "a", "l", "l", "a">>, category |-> "Monitores"],
    [keyword |-> <<"s", "i", "l", "l", "a">>, category |-> "Sillas Gaming"] >>

Greetings == <<
    <<"h", "o", "l", "a">>,
    <<"h", "e", "y">>,
    <<"s", "a", "l", "u", "d", "o", "s">>,
    <<"b", "u", "e", "n", "o", "s", " ", "d", "í", "a", "s">>,
    <<"b", "u", "e", "n", "a", "s", " ", "t", "a", "r", "d", "e", "s">>,
    <<"b", "u", "e", "n", "a", "s", " ", "n", "o", "c", "h", "e", "s">> >>

HelpKeywords == <<
    <<"a", "y", "u", "d", "a">>,
    <<"a", "y", "u", "d", "a", "m", "e">>,
    <<"c", "o", "m", "o", " ", "f", "u", "n", "c", "i", "o", "n", "a">>,
    <<"q", "u", "e", " ", "h", "a", "c", "e", "s">> >>

\* the four alternatives of price_pattern, each followed by (\d+)
PricePhrases == <<
    <<"m", "e", "n", "o", "s", " ", "d", "e", " ">>,
    <<"b", "a", "j", "o", " ">>,
    <<"m", "a", "x", "i", "m", "o", " ">>,
    <<"h", "a", "s", "t", "a", " ">> >>

\* ---------------------------------------------------------------- catalog
\* the Category rows the chatbot reads (no "Portátiles Gaming", no "Sillas
\* Gaming": Category.objects.get raises DoesNotExist for them)
ChatCategories == <<
    [name |-> "Periféricos", slug |-> "perifericos", is_active |-> TRUE],
    [name |-> "Componentes", slug |-> "componentes", is_active |-> FALSE],
    [name |-> "Monitores",   slug |-> "monitores",   is_active |-> TRUE] >>

\* the Product rows, in the store's order
ChatProducts == <<
    [name |-> <<"T", "e", "c", "l", "a", "d", "o", " ", "G", "a", "m", "i", "n", "g", " ", "K", "1">>,
     description |-> <<"t", "e", "c", "l", "a", "d", "o", " ", "m", "e", "c", "a", "n", "i", "c", "o", " ", "r", "g", "b">>,
     category |-> "Periféricos", slug |-> "teclado-k1", price |-> 45000, is_available |-> TRUE],
    [name |-> <<"T", "e", "c", "l", "a", "d", "o", " ", "O", "f", "f", "i", "c", "e">>,
     description |-> <<"t", "e", "c", "l", "a", "d", "o", " ", "s", "i", "l", "e", "n", "c", "i", "o", "s", "o">>,
     category |-> "Periféricos", slug |-> "teclado-office", price |-> 20000, is_available |-> TRUE],
    [name |-> <<"M", "o", "u", "s", "e", " ", "G", "a", "m", "i", "n", "g", " ", "M", "1">>,
     description |-> <<"r", "a", "t", "o", "n", " ", "o", "p", "t", "i", "c", "o">>,
     category |-> "Periféricos", slug |-> "mouse-m1", price |-> 30000, is_available |-> TRUE],
    [name |-> <<"A", "u", "r", "i", "c", "u", "l", "a", "r", " ", "P", "r", "o">>,
     description |-> <<"c", "a", "s", "c", "o", "s", " ", "g", "a", "m", "i", "n", "g">>,
     category |-> "Periféricos", slug |-> "auricular-pro", price |-> 60000, is_available |-> TRUE],
    [name |-> <<"M", "o", "u", "s", "e", " ", "P", "a", "d">>,
     description |-> <<"a", "l", "f", "o", "m", "b", "r", "i", "l", "l", "a">>,
     category |-> "Periféricos", slug |-> "mouse-pad", price |-> 5000, is_available |-> TRUE],
    [name |-> <<"T", "e", "c", "l", "a", "d", "o", " ", "R", "e", "t", "r", "o">>,
     description |-> <<"t", "e", "c", "l", "a", "d", "o", " ", "g", "a", "m", "i", "n", "g", " ", "a", "n", "t", "i", "g", "u", "o">>,
     category |-> "Periféricos", slug |-> "teclado-retro", price |-> 10000, is_available |-> FALSE],
    [name |-> <<"W", "e", "b", "c", "a", "m", " ", "H", "D">>,
     description |-> <<"c", "a", "m", "a", "r", "a", " ", "x", "y", "z">>,
     category |-> "Periféricos", slug |-> "webcam-hd", price |-> 25000, is_available |-> TRUE],
    [name |-> <<"M", "o", "n", "i", "t", "o", "r", " ", "G", "a", "m", "i", "n", "g", " ", "2", "7">>,
     description |-> <<"p", "a", "n", "t", "a", "l", "l", "a", " ", "c", "u", "r", "v", "a">>,
     category |-> "Monitores", slug |-> "monitor-27", price |-> 900000, is_available |-> TRUE],
    [name |-> <<"T", "a", "r", "j", "e", "t", "a", " ", "R", "T", "X">>,
     description |-> <<"g", "r", "a", "f", "i", "c", "a", " ", "g", "a", "m", "i", "n", "g">>,
     category |-> "Componentes", slug |-> "tarjeta-rtx", price |-> 1500000, is_available |-> TRUE] >>

\* ---------------------------------------------------------------- queries
\* a query is a head, a middle and a tail
QueryHeads == {
    <<>>,
    <<"h", "o", "l", "a", " ">>,
    <<"H", "e", "y", " ">>,
    <<"a", "y", "u", "d", "a", " ">>,
    <<"b", "u", "s", "c", "o", " ">> }

QueryMiddles == {
    <<>>,
    <<"t", "e", "c", "l", "a", "d", "o">>,
    <<"t", "e", "c", "l", "a", "d", "o", " ", "g", "a", "m", "i", "n", "g">>,
    <<"m", "o", "n", "i", "t", "o", "r">>,
    <<"l", "a", "p", "t", "o", "p">>,
    <<"x", "y", "z">>,
    <<"T", "E", "C", "L", "A", "D", "O">> }

QueryTails == {
    <<>>,
    <<" ", "m", "e", "n", "o", "s", " ", "d", "e", " ", "5", "0">>,
    <<" ", "m", "e", "n", "o", "s", " ", "d", "e", " ", "0">>,
    <<" ", "h", "a", "s", "t", "a", " ", "2">>,
    <<" ", "h", "o", "l", "a">>,
    <<" ", "a", "y", "u", "d", "a">> }

\* --------------------------------------------------------------- response
GreetingText ==
    "¡Hola! Soy el asistente de TecLegacy. Puedo ayudarte a encontrar productos gaming y tecnología. ¿Qué estás buscando hoy?"
HelpText ==
    "Puedo ayudarte a encontrar productos en nuestra tienda. Prueba preguntándome por productos específicos como 'muéstrame teclados gaming' o 'busco un monitor de 27 pulgadas'. También puedes indicarme un rango de precio como 'monitores por menos de 500'."

\* a response is the sequence of the pieces the view concatenates
Piece(t, text, chars, n, cat, slug) ==
    [t |-> t, text |-> text, chars |-> chars, n |-> n, cat |-> cat, slug |-> slug,
     amount |-> <<>>]

TextPiece(text) == Piece("text", text, <<>>, 0, "", "")

\* ---------------------------------------------------- price_pattern, int()
IsDigit(c) == \E k \in DOMAIN Digits : Digits[k] = c

DigitValue(c) == (CHOOSE k \in DOMAIN Digits : Digits[k] = c) - 1

\* int() of a run of digits
RECURSIVE ParseInt(_)
ParseInt(ds) ==
    IF ds = <<>> THEN 0
    ELSE 10 * ParseInt(SubSeq(ds, 1, Len(ds) - 1)) + DigitValue(ds[Len(ds)])

\* alternative a of the pattern matches at k: the phrase, then a digit
PhraseAt(q, a, k) ==
    /\ StartsAt(q, PricePhrases[a], k)
    /\ k + Len(PricePhrases[a]) <= Len(q)
    /\ IsDigit(q[k + Len(PricePhrases[a])])

MatchesAt(q, k) == \E a \in DOMAIN PricePhrases : PhraseAt(q, a, k)

\* (\d+) is greedy: the last index of the run of digits that starts at k
RECURSIVE DigitsEnd(_, _)
DigitsEnd(q, k) ==
    IF k + 1 <= Len(q) /\ IsDigit(q[k + 1]) THEN DigitsEnd(q, k + 1) ELSE k

NoPrice == -1

\* lines 43-52: None (NoPrice) or the captured number times 1000
MaxPriceOf(q) ==
    IF ~\E k \in 1..Len(q) : MatchesAt(q, k) THEN NoPrice
    ELSE LET k == CHOOSE j \in 1..Len(q) :
                      MatchesAt(q, j) /\ \A h \in 1..(j - 1) : ~MatchesAt(q, h)
             a == CHOOSE b \in DOMAIN PricePhrases :
                      PhraseAt(q, b, k) /\ \A c \in 1..(b - 1) : ~PhraseAt(q, c, k)
             from == k + Len(PricePhrases[a])
         IN ParseInt(SubSeq(q, from, DigitsEnd(q, from))) * 1000

\* "if max_price:" is false for None and for 0
HasCeiling(maxPrice) == maxPrice # NoPrice /\ maxPrice # 0

\* --------------------------------------------------------------- filters
AnyIn(phrases, q) == \E k \in DOMAIN phrases : Contains(q, phrases[k])

CategoryExists(name) == \E k \in DOMAIN ChatCategories : ChatCategories[k].name = name

Available == {k \in DOMAIN ChatProducts : ChatProducts[k].is_available}

\* lines 80-92: the loop over category_keywords from entry k on, narrowing sel
RECURSIVE KeywordFilter(_, _, _, _)
KeywordFilter(q, k, sel, applied) ==
    IF k > Len(CategoryKeywords) THEN [sel |-> sel, applied |-> applied]
    ELSE LET e == CategoryKeywords[k] IN
         IF ~Contains(q, e.keyword) THEN KeywordFilter(q, k + 1, sel, applied)
         ELSE IF e.category # ""
         THEN IF CategoryExists(e.category)
              THEN KeywordFilter(q, k + 1,
                       {p \in sel : ChatProducts[p].category = e.category}, TRUE)
              ELSE KeywordFilter(q, k + 1, sel, applied)
         ELSE KeywordFilter(q, k + 1,
                  {p \in sel : IContains(ChatProducts[p].name, e.keyword)}, TRUE)

\* query.split(): the maximal runs without a blank
RECURSIVE Split(_)
Split(q) ==
    IF q = <<>> THEN <<>>
    ELSE IF Head(q) = " " THEN Split(Tail(q))
    ELSE LET stop == IF \E k \in DOMAIN q : q[k] = " "
                     THEN (CHOOSE k \in DOMAIN q :
                               q[k] = " " /\ \A h \in 1..(k - 1) : q[h] # " ") - 1
                     ELSE Len(q)
         IN <<SubSeq(q, 1, stop)>> \o Split(SubSeq(q, stop + 1, Len(q)))

\* lines 95-102: every word of 3 characters or more is in the name or the description
WordFilter(q, sel) ==
    LET words == Split(q) IN
    {p \in sel : \A k \in DOMAIN words :
         Len(words[k]) >= 3 =>
            \/ IContains(ChatProducts[p].name, words[k])
            \/ IContains(ChatProducts[p].description, words[k])}

\* lines 105-106
PriceFilter(maxPrice, sel) ==
    IF HasCeiling(maxPrice) THEN {p \in sel : ChatProducts[p].price <= maxPrice} ELSE sel

\* the products the query selects, before the slice
Selected(q) ==
    LET byKeyword == KeywordFilter(q, 1, Available, FALSE)
        narrowed == IF byKeyword.applied THEN byKeyword.sel
                    ELSE WordFilter(q, byKeyword.sel)
    IN PriceFilter(MaxPriceOf(q), narrowed)

\* products_query[:5], in the store's order
RECURSIVE FirstN(_, _)
FirstN(S, n) ==
    IF S = {} \/ n = 0 THEN <<>>
    ELSE LET m == CHOOSE x \in S : \A y \in S : x <= y
         IN <<m>> \o FirstN(S \ {m}, n - 1)

ResultLimit == 5

\* ------------------------------------------------------------ formatting
RECURSIVE DigitsOf(_)
DigitsOf(n) ==
    IF n < 10 THEN <<Digits[n + 1]>>
    ELSE DigitsOf(n \div 10) \o <<Digits[(n % 10) + 1]>>

\* '{:,.0f}'.format(price).replace(',', '.'): a dot before every group of three
RECURSIVE Grouped(_)
Grouped(ds) ==
    IF Len(ds) <= 3 THEN ds
    ELSE Grouped(SubSeq(ds, 1, Len(ds) - 3)) \o <<".">> \o SubSeq(ds, Len(ds) - 2, Len(ds))

PriceFormatted(n) == Grouped(DigitsOf(n))

CategorySlug(name) ==
    ChatCategories[CHOOSE k \in DOMAIN ChatCategories : ChatCategories[k].name = name].slug

\* line 120
ProductLine(p) ==
    [Piece("product", "", ChatProducts[p].name, 0,
           CategorySlug(ChatProducts[p].category), ChatProducts[p].slug)
        EXCEPT !.amount = PriceFormatted(ChatProducts[p].price)]

ActiveCategories == SelectSeq(ChatCategories, LAMBDA c : c.is_active)

\* lines 112-132
ResultResponse(q) ==
    LET maxPrice == MaxPriceOf(q)
        products == FirstN(Selected(q), ResultLimit)
    IN IF products # <<>>
       THEN <<IF HasCeiling(maxPrice)
              THEN Piece("intro_price", "", <<>>, maxPrice \div 1000, "", "")
              ELSE Piece("intro", "", <<>>, 0, "", "")>>
            \o [k \in DOMAIN products |-> ProductLine(products[k])]
            \o (IF Len(products) = 5 THEN <<Piece("more", "", <<>>, 0, "", "")>> ELSE <<>>)
       ELSE <<Piece("sorry", "", q, 0, "", "")>>
            \o (IF ActiveCategories # <<>>
                THEN <<Piece("explore", "", <<>>, 0, "", "")>>
                     \o [k \in DOMAIN ActiveCategories |->
                            Piece("category", ActiveCategories[k].name, <<>>, 0,
                                  ActiveCategories[k].slug, "")]
                ELSE <<>>)

\* the help answer is tried before the greeting
RespondHelpFirst(q) ==
    IF AnyIn(HelpKeywords, q) THEN <<TextPiece(HelpText)>>
    ELSE IF AnyIn(Greetings, q) THEN <<TextPiece(GreetingText)>>
    ELSE ResultResponse(q)

\* lines 57-132: the response to the lower-cased query
Respond(q) ==
    IF AnyIn(Greetings, q) THEN <<TextPiece(GreetingText)>>
    ELSE IF AnyIn(HelpKeywords, q) THEN <<TextPiece(HelpText)>>
    ELSE ResultResponse(q)

\* ---------------------------------------------------------- chatbot_query
Queries == {a \o b \o c : a \in QueryHeads, b \in QueryMiddles, c \in QueryTails}

\* a request body: JSON with a query, JSON whose query is not a string, or
\* bytes that are not JSON
Bodies == [kind : {"json"}, query : Queries]
          \cup [kind : {"not_string", "malformed"}, query : {<<>>}]

NoRequest == [method |-> "none", kind |-> "none", query |-> <<>>]

Success(response) == [success |-> TRUE, response |-> response, error |-> ""]
Failure(error) == [success |-> FALSE, response |-> <<>>, error |-> error]

ChatbotQuery(method, body) ==
    /\ chatReq' = [method |-> method, kind |-> body.kind, query |-> body.query]
    /\ IF method # "POST"
       THEN /\ chatResp' = Failure("Método no permitido")
            /\ UNCHANGED chatLog
       ELSE IF body.kind # "json"
       THEN /\ chatResp' = Failure("exception")
            /\ UNCHANGED chatLog
       ELSE LET query == Lower(body.query)
                response == Respond(query)
            IN /\ Len(chatLog) < MaxLog
               /\ chatLog' = Append(chatLog, [query |-> query, response |-> response])
               /\ chatResp' = Success(response)
    /\ UNCHANGED <<price, nSessions, carts, cartItems, nextItemId, orders, orderItems, ck, last>>


\* ------------------------------------------------------------------ init
Init ==
    /\ price = [p \in Products |-> 1]
    /\ nSessions = 0
    /\ carts = <<>>
    /\ cartItems = {}
    /\ nextItemId = 1
    /\ orders = <<>>
    /\ orderItems = <<>>
    /\ ck = [w \in Procs |-> Idle]
    /\ last = Resp("none", 0, "", "none")
    /\ chatLog = <<>>
    /\ chatReq = NoRequest
    /\ chatResp = Failure("")

\* a request is taken by the lowest worker that is free
FreeWorker(w) == ck[w].pc = "idle" /\ \A v \in Procs : v < w => ck[v].pc # "idle"

\* requests by user alone (the views behind login_required never read the session)
Callers == {r \in Requests : r.sk = NoSession}
Shopper == [user |-> "u1", sk |-> NoSession]

\* the forms the checkout machine is driven with: complete, and one incomplete
SomeForms == {FieldNames, FieldNames \ {"email", "city"}}

\* the Order table is let grow to n rows
CanOrder(n) == Len(orders) < n

\* ---- the checkout and payment machine of one shopper, other callers intruding
Next ==
    /\ UNCHANGED chat
    /\ \/ AddToCart(Shopper, "p1", 1, TRUE)
       \/ \E id \in 1..MaxItemId, a \in Actions : UpdateCart(Shopper, id, a, TRUE)
       \/ \E v \in Prices : ChangePrice("p1", v)
       \/ \E r \in Callers, m \in Methods, f \in SomeForms : CheckoutRequest(1, r, m, f)
       \/ CanOrder(MaxOrders) /\ CheckoutCreateOrder(1)
       \/ CheckoutFetchItems(1)
       \/ CheckoutCreateItem(1)
       \/ CheckoutClear(1)
       \/ CheckoutAbort(1)
       \/ \E r \in Callers, o \in 1..MaxOrders : PaymentProcess(r, o)
       \/ \E r \in Callers, o \in 1..MaxOrders, m \in Methods,
             pid \in SuppliedIds, g \in GeneratedIds : PaymentExecute(r, o, m, pid, g)
       \/ \E r \in Callers, o \in 1..MaxOrders : PaymentSuccess(r, o)
       \/ \E r \in Callers, o \in 1..MaxOrders : PaymentCancel(r, o)

Spec == Init /\ [][Next]_vars

\* ---- the carts of every identity, no checkout
NextCart ==
    /\ UNCHANGED chat
    /\ \/ \E r \in KnownRequests : CartDetail(r)
       \/ \E r \in KnownRequests, p \in Products \cup Unavailable, q \in QtyArgs, ajax \in BOOLEAN :
              AddToCart(r, p, q, ajax)
       \/ \E r \in KnownRequests, id \in 1..MaxItemId, a \in Actions, ajaxPost \in BOOLEAN :
              UpdateCart(r, id, a, ajaxPost)

SpecCart == Init /\ [][NextCart]_vars

\* ---- checkout alone: two cart lines, every form, one worker
NextCheckout ==
    /\ UNCHANGED chat
    /\ \/ \E p \in Products : AddToCart(Shopper, p, 1, TRUE)
       \/ \E r \in Callers, m \in Methods : CheckoutRequest(1, r, m, FieldNames)
       \/ \E f \in Forms : CheckoutRequest(1, Shopper, "POST", f)
       \/ CanOrder(MaxOrders) /\ CheckoutCreateOrder(1)
       \/ CheckoutFetchItems(1)
       \/ CheckoutCreateItem(1)
       \/ CheckoutClear(1)
       \/ CheckoutAbort(1)

SpecCheckout == Init /\ [][NextCheckout]_vars

\* ---- two workers serve the checkout requests of one shopper at once
RaceOrders == MaxOrders + 1

NextRace ==
    /\ UNCHANGED chat
    /\ \/ \E p \in Products : AddToCart(Shopper, p, 1, TRUE)
       \/ \E w \in Procs : CheckoutRequest(w, Shopper, "POST", FieldNames)
       \/ \E w \in Procs : CanOrder(RaceOrders) /\ CheckoutCreateOrder(w)
       \/ \E w \in Procs : CheckoutFetchItems(w)
       \/ \E w \in Procs : CheckoutCreateItem(w)
       \/ \E w \in Procs : CheckoutClear(w)
       \/ \E w \in Procs : CheckoutAbort(w)

SpecRace == Init /\ [][NextRace]_vars

\* ---- requests served one at a time: a checkout runs from its first statement
\* to its last before the next request is taken
Quiet == \A w \in Procs : ck[w].pc = "idle"

NextSubmit ==
    /\ UNCHANGED chat
    /\ \/ Quiet /\ CartDetail(Shopper)
       \/ Quiet /\ \E p \in Products : AddToCart(Shopper, p, 1, TRUE)
       \/ Quiet /\ \E id \in 1..MaxItemId, a \in Actions : UpdateCart(Shopper, id, a, TRUE)
       \/ Quiet /\ \E p \in Products, v \in Prices : ChangePrice(p, v)
       \/ CheckoutRequest(1, Shopper, "POST", FieldNames)
       \/ CanOrder(MaxOrders) /\ CheckoutCreateOrder(1)
       \/ CheckoutFetchItems(1)
       \/ CheckoutCreateItem(1)
       \/ CheckoutClear(1)

SpecSubmit == Init /\ [][NextSubmit]_vars

\* ---- the chatbot
NextChat ==
    /\ UNCHANGED shop
    /\ \/ \E b \in Bodies : ChatbotQuery("POST", b)
       \/ ChatbotQuery("GET", [kind |-> "malformed", query |-> <<>>])

SpecChat == Init /\ [][NextChat]_vars

\* ======================================================================
\* Properties
\* ======================================================================
OrderItemsOf(o) == SelectSeq(orderItems, LAMBDA x : x.order = o)

UserCartItems(u) == {i \in cartItems : carts[i.cart].user = u}

\* the identity a cart is bound to makes the request
OwnsCart(r, c) ==
    IF IsAuthenticated(r) THEN carts[c].user = r.user
    ELSE r.sk # NoSession /\ carts[c].session_id = r.sk

Mutations == {"increase", "decrease", "remove"}

\* C1: a checkout POST that has ended, by creating the order or by failing
\* after the Order insert, leaves either the Order with its OrderItems and an
\* empty cart, or no Order at all.
C1_SubmitAllOrNothing ==
    (last.op = "checkout" /\ last.result \in {"created", "error"}) =>
        \/ /\ last.arg \in DOMAIN orders
           /\ OrderItemsOf(last.arg) # <<>>
           /\ UserCartItems(orders[last.arg].user) = {}
        \/ /\ last.arg \notin DOMAIN orders
           /\ OrderItemsOf(last.arg) = <<>>

\* C2: execute_payment on an order that is already completado leaves
\* payment_reference, payment_status and status as they were.
C2_ExecuteIdempotent ==
    [][last'.op = "payment_execute" =>
       \A r \in Callers, o \in DOMAIN orders, pid \in SuppliedIds, g \in GeneratedIds :
          (orders[o].payment_status = "completado"
             /\ PaymentExecute(r, o, "POST", pid, g))
          => orders'[o] = orders[o]]_vars

\* C3: add_to_cart with a quantity below 1 fails as invalid and leaves the
\* CartItems as they were, on the AJAX path and on the form path.
C3_RejectsNonPositive ==
    [][last'.op = "add_to_cart" =>
       \A r \in Requests, p \in Products, q \in QtyArgs, ajax \in BOOLEAN :
          (q < 1 /\ AddToCart(r, p, q, ajax))
          => (cartItems' = cartItems /\ last'.result = "invalid")]_vars

\* C4: decrease on a CartItem of quantity 1 deletes the row (no row of
\* quantity 0 is stored); on quantity q > 1 the row stays, with quantity q - 1.
\* (Each property below is written "outcome, or the request was not this one",
\* which is the implication with its cheap side first.)
DecreaseOutcome(i) ==
    IF i.quantity = 1
    THEN /\ \A j \in cartItems' : j.id # i.id
         /\ cartItems' = cartItems \ {i}
    ELSE /\ [i EXCEPT !.quantity = i.quantity - 1] \in cartItems'
         /\ \A j \in cartItems' : j.id = i.id => j.quantity = i.quantity - 1
         /\ \A j \in cartItems : j.id # i.id => j \in cartItems'

C4_Decrease ==
    [][last'.op = "update_cart" =>
       \A i \in cartItems, r \in Requests :
          \/ DecreaseOutcome(i)
          \/ ~(i.quantity >= 1 /\ UpdateCart(r, i.id, "decrease", TRUE))]_vars

C4_Witness ==
    last = Resp("update_cart", 0, "decrease", "removed") /\ cartItems # {}

PaymentView(r, o) ==
    \/ PaymentProcess(r, o)
    \/ PaymentSuccess(r, o)
    \/ PaymentCancel(r, o)
    \/ \E m \in Methods, pid \in SuppliedIds, g \in GeneratedIds :
           PaymentExecute(r, o, m, pid, g)

PaymentOps == {"payment_process", "payment_execute", "payment_success", "payment_cancel"}

\* C6 (as claimed): every payment view called by an identity that is not the
\* order's user answers Not Found and leaves the order as it was.
C6_NonOwnerNotFound ==
    [][last'.op \in PaymentOps =>
       \A r \in Callers, o \in DOMAIN orders :
          (r.user # orders[o].user /\ PaymentView(r, o))
          => (orders' = orders /\ last'.result = "notfound")]_vars

\* C6 (amended): a payment view called by somebody who is not the order's user
\* leaves the order as it was; it answers Not Found to a logged-in user, with
\* the redirect to the login page to an anonymous caller, and payment_execute
\* called with another method than POST redirects to the payment step; an
\* order changes only on payment_execute or payment_cancel by its user.
RefusedOutcome(r) ==
    /\ orders' = orders
    /\ last'.result \in
          IF ~IsAuthenticated(r) THEN {"login"}
          ELSE IF last'.op = "payment_execute"
               THEN {"notfound", "to_process"} ELSE {"notfound"}

C6_NonOwnerRefused ==
    [][/\ last'.op \in PaymentOps =>
            \A r \in Callers, o \in DOMAIN orders :
               \/ /\ RefusedOutcome(r)
                  /\ \/ last'.result # "to_process"
                     \/ \A pid \in SuppliedIds, g \in GeneratedIds :
                            ~PaymentExecute(r, o, "POST", pid, g)
               \/ ~(r.user # orders[o].user /\ PaymentView(r, o))
       /\ \A o \in DOMAIN orders :
             (o \in DOMAIN orders' /\ orders'[o] # orders[o]) =>
                \E r \in Callers :
                    /\ r.user = orders[o].user
                    /\ last'.op \in {"payment_execute", "payment_cancel"}
                    /\ PaymentView(r, o)]_vars

C6_Witness ==
    /\ Len(orders) = MaxOrders
    /\ last = Resp("payment_cancel", 0, "", "notfound")
    /\ \A o \in DOMAIN orders : orders[o].payment_status = "completado"

\* C7: update_cart on a CartItem of a cart bound to another identity answers
\* Not Found and leaves the CartItems as they were.
C7_ForeignItemRefused ==
    [][last'.op = "update_cart" =>
       \A i \in cartItems, r \in Requests, a \in Mutations :
          (~OwnsCart(r, i.cart) /\ UpdateCart(r, i.id, a, TRUE))
          => (cartItems' = cartItems /\ last'.result = "notfound")]_vars

\* C8: a checkout POST on an empty cart, or with a required field missing or
\* empty, creates no Order and no OrderItem, leaves the CartItems as they were
\* and starts no submit; with a field missing on a cart that has items the
\* error names the first of the nine fields, in their order, that is missing.
RejectedOutcome(r, f) ==
    /\ orders' = orders /\ orderItems' = orderItems
    /\ cartItems' = cartItems /\ ck' = ck
    /\ IF ItemsOf(CartOf(r)) = {} THEN last'.result = "empty"
       ELSE /\ last'.result = "invalid"
            /\ \E k \in DOMAIN RequiredFields :
                  /\ last'.tag = RequiredFields[k]
                  /\ RequiredFields[k] \notin f
                  /\ \A h \in 1..(k - 1) : RequiredFields[h] \in f

C8_SubmitPrecondition ==
    [][last'.op = "checkout" =>
       \A r \in Callers, f \in Forms :
          \/ RejectedOutcome(r, f)
          \/ ~(/\ IsAuthenticated(r)
               /\ ItemsOf(CartOf(r)) = {} \/ f # FieldNames
               /\ CheckoutRequest(1, r, "POST", f))]_vars

C8_Witness ==
    /\ last = Resp("checkout", 0, "postal_code", "invalid")
    /\ cartItems # {}
    /\ orders # <<>>

\* C9: get-or-create of the cart: a request resolves to the cart of its user
\* when it is logged in, else to the cart of its session; an identity that has
\* a cart gets that cart and no row is created; no identity ever has two carts.
SameIdentity(a, b) ==
    IF a.user # NoUser \/ b.user # NoUser THEN a.user = b.user
    ELSE a.session_id = b.session_id

C9_ResolveCart ==
    [][last'.op = "cart_detail" =>
       \A r \in Requests :
          CartDetail(r) =>
             LET c == last'.arg IN
             /\ c \in DOMAIN carts'
             /\ IsAuthenticated(r) => carts'[c].user = r.user
             /\ ~IsAuthenticated(r) =>
                   /\ carts'[c].user = NoUser
                   /\ carts'[c].session_id # NoSession
                   /\ r.sk # NoSession => carts'[c].session_id = r.sk
             /\ \A d \in DOMAIN carts : OwnsCart(r, d) => (c = d /\ carts' = carts)
             /\ \A d \in DOMAIN carts : d \in DOMAIN carts' /\ carts'[d] = carts[d]
             /\ Len(carts') <= Len(carts) + 1
             /\ \A d, e \in DOMAIN carts' :
                   SameIdentity(carts'[d], carts'[e]) => d = e]_vars

C9_Witness ==
    /\ last.op = "cart_detail"
    /\ last.arg < Len(carts)
    /\ carts[last.arg].user # NoUser
    /\ \E d \in DOMAIN carts : carts[d].session_id # NoSession

\* C10: a query that contains a greeting phrase is answered with the fixed
\* greeting text and nothing else, whatever else it contains (a category
\* trigger, a price phrase, a help phrase): no product is listed, and the
\* greeting wins over the help answer.
C10_GreetingShortCircuit ==
    (chatReq.method = "POST" /\ chatReq.kind = "json" /\ AnyIn(Greetings, chatReq.query))
    => /\ chatResp = Success(<<TextPiece(GreetingText)>>)
       /\ \A k \in DOMAIN chatResp.response : chatResp.response[k].t # "product"
       /\ chatLog # <<>> /\ chatLog[Len(chatLog)].response = <<TextPiece(GreetingText)>>

C10_Witness ==
    /\ chatReq.method = "POST" /\ chatReq.kind = "json"
    /\ AnyIn(Greetings, chatReq.query)
    /\ AnyIn(HelpKeywords, chatReq.query)
    /\ \E k \in DOMAIN CategoryKeywords : Contains(chatReq.query, CategoryKeywords[k].keyword)
    /\ chatResp.success

\* the pieces of kind t in the last response, in their order
PiecesOf(t) == SelectSeq(chatResp.response, LAMBDA x : x.t = t)

\* the Product row a listed line links to
ListedProduct(piece) ==
    ChatProducts[CHOOSE k \in DOMAIN ChatProducts : ChatProducts[k].slug = piece.slug]

\* the last request is a query that reaches the catalog search
SearchQuery ==
    /\ chatReq.method = "POST" /\ chatReq.kind = "json"
    /\ ~AnyIn(Greetings, Lower(chatReq.query))
    /\ ~AnyIn(HelpKeywords, Lower(chatReq.query))

\* C11: the response to a query that is no greeting and no help request lists
\* at most 5 products, every one of them available, and when the query names
\* a price ceiling N (0 included) every listed product costs at most N * 1000.
C11_ResultSet ==
    SearchQuery =>
        /\ chatResp.success
        /\ Len(PiecesOf("product")) <= 5
        /\ \A k \in DOMAIN PiecesOf("product") :
              /\ \E j \in DOMAIN ChatProducts : ChatProducts[j].slug = PiecesOf("product")[k].slug
              /\ ListedProduct(PiecesOf("product")[k]).is_available
              /\ MaxPriceOf(Lower(chatReq.query)) # NoPrice =>
                    ListedProduct(PiecesOf("product")[k]).price
                        <= MaxPriceOf(Lower(chatReq.query))

\* C12: a query, in whatever letter case, that selects no product is answered
\* with the apology that quotes the query as it was submitted, followed by
\* every active category and no inactive one.
C12_ApologyEchoesQuery ==
    (SearchQuery /\ Selected(Lower(chatReq.query)) = {}) =>
        /\ chatResp.success
        /\ chatResp.response # <<>>
        /\ chatResp.response[1].t = "sorry"
        /\ chatResp.response[1].chars = chatReq.query
        /\ PiecesOf("product") = <<>>
        /\ [k \in DOMAIN PiecesOf("category") |-> PiecesOf("category")[k].text]
              = [k \in DOMAIN ActiveCategories |-> ActiveCategories[k].name]

\* C13: a request answered with success appends exactly one ChatbotQuery row,
\* holding the query text as submitted and the response returned; a request
\* answered with the failure response appends none; rows already written stay.
C13_AuditLog ==
    [][IF chatResp'.success
       THEN chatLog' = Append(chatLog, [query |-> chatReq'.query,
                                        response |-> chatResp'.response])
       ELSE chatLog' = chatLog]_vars

\* C14: every stored CartItem has a quantity of 1 or more, whatever add_to_cart
\* and update_cart requests were made.
C14_QuantityPositive == \A i \in cartItems : i.quantity >= 1

\* C15: an order whose payment_status is completado or fallido keeps that
\* payment_status under every later payment request of its owner.
C15_TerminalPayment ==
    [][\A o \in DOMAIN orders :
          orders[o].payment_status \in {"completado", "fallido"}
             => orders'[o].payment_status = orders[o].payment_status]_vars

\* the request of the user a cart is bound to
OwnerRequest(c) == [user |-> carts[c].user, sk |-> NoSession]

InFlight == {"validated", "ordered", "copying"}

\* C16: nothing guards a second checkout of the same cart: while one submit is
\* in flight and the cart still holds its lines, a second submit passes the
\* empty-cart check and the validation, and two submits that are both past the
\* Order insert for one cart hold two different Orders.
C16_CheckoutRace ==
    \A w, v \in Procs :
        (w # v /\ ck[w].pc \in InFlight) =>
            /\ (ck[v].pc = "idle" /\ ItemsOf(ck[w].cart) # {}) =>
                  ENABLED (/\ CheckoutRequest(v, OwnerRequest(ck[w].cart), "POST", FieldNames)
                           /\ ck'[v].pc = "validated"
                           /\ ck'[v].cart = ck[w].cart)
            /\ (/\ ck[v].pc \in {"ordered", "copying"}
                /\ ck[w].pc \in {"ordered", "copying"}
                /\ ck[v].cart = ck[w].cart) =>
                  /\ ck[v].order # ck[w].order
                  /\ ck[v].order \in DOMAIN orders
                  /\ ck[w].order \in DOMAIN orders

\* one cart line, never added to again, is copied into two Orders
C16_Witness ==
    /\ nextItemId = 2
    /\ Len(orders) = 2
    /\ orders[1].user = orders[2].user
    /\ \A w \in Procs : ck[w].pc = "idle"
    /\ cartItems = {}
    /\ Len(OrderItemsOf(1)) = 1 /\ Len(OrderItemsOf(2)) = 1
    /\ OrderItemsOf(1)[1].product = OrderItemsOf(2)[1].product
    /\ OrderItemsOf(1)[1].quantity = OrderItemsOf(2)[1].quantity
    /\ last.result = "created"

\* C17: payment_cancel by the owner sets payment_status to fallido and changes
\* nothing else: not the status, the payment_reference or the total_paid of
\* the order, no other order, no OrderItem, no cart and no CartItem (the lines
\* cleared at checkout are not put back).
C17_CancelFrame ==
    [][last'.op = "payment_cancel" =>
       \A r \in Callers, o \in DOMAIN orders :
          (IsAuthenticated(r) /\ FindOrder(r, o) /\ PaymentCancel(r, o)) =>
             /\ orders' = [orders EXCEPT ![o].payment_status = "fallido"]
             /\ orders'[o].status = orders[o].status
             /\ orders'[o].payment_reference = orders[o].payment_reference
             /\ orders'[o].total_paid = orders[o].total_paid
             /\ orderItems' = orderItems
             /\ cartItems' = cartItems
             /\ carts' = carts]_vars

C17_Witness ==
    /\ last = Resp("payment_cancel", 1, "", "to_checkout")
    /\ orders[1].payment_status = "fallido"
    /\ orders[1].status = "procesando"
    /\ OrderItemsOf(1) # <<>>
    /\ UserCartItems(orders[1].user) = {}

\* the rows of cart c for product p
LinesOf(c, p) == {i \in cartItems : i.cart = c /\ i.product = p}

\* C18: add_to_cart with a quantity of 1 or more leaves exactly one CartItem
\* for the cart and the product: the row that was there, its quantity raised
\* by the quantity added, or a new row with the quantity added; the other rows
\* stay, and no cart ever has two rows for one product.
C18_AddAccumulates ==
    [][last'.op = "add_to_cart" =>
       \A r \in Requests, p \in Products, q \in QtyArgs, ajax \in BOOLEAN :
          (q >= 1 /\ q = last'.arg /\ AddToCart(r, p, q, ajax)) =>
             LET c == CartOf(r) IN
             /\ \A i \in cartItems : (i.cart # c \/ i.product # p) => i \in cartItems'
             /\ \E j \in cartItems' :
                   /\ {k \in cartItems' : k.cart = c /\ k.product = p} = {j}
                   /\ IF LinesOf(c, p) = {} THEN j.quantity = q
                      ELSE \E i \in LinesOf(c, p) :
                              j.id = i.id /\ j.quantity = i.quantity + q
             /\ \A j, k \in cartItems' :
                   (j.cart = k.cart /\ j.product = k.product) => j = k
             /\ Cardinality(cartItems') <= Cardinality(cartItems) + 1]_vars

C18_Witness ==
    /\ last.op = "add_to_cart" /\ last.arg = 1
    /\ nextItemId = 2
    /\ \E i \in cartItems : cartItems = {i} /\ i.quantity = 2

\* the OrderItem rows that snapshot the lines of cart c, at the prices of now
SnapshotOf(o, c) ==
    [k \in DOMAIN InIdOrder(ItemsOf(c)) |->
        [order |-> o,
         product |-> InIdOrder(ItemsOf(c))[k].product,
         price |-> price[InIdOrder(ItemsOf(c))[k].product],
         quantity |-> InIdOrder(ItemsOf(c))[k].quantity]]

C20_InitiateFrame ==
    [][last'.op = "payment_process" =>
       \A r \in Callers, o \in DOMAIN orders :
          (IsAuthenticated(r) /\ FindOrder(r, o) /\ PaymentProcess(r, o)) =>
             /\ orders' = orders
             /\ orderItems' = orderItems
             /\ last'.arg = o
             /\ last'.result = IF orders[o].payment_status = "completado"
                               THEN "to_success" ELSE "ok"]_vars

\* the payment step is entered again for an order that is already paid
C20_Witness ==
    /\ last = Resp("payment_process", 1, "", "to_success")
    /\ orders[1].payment_status = "completado"
    /\ orders[1].payment_reference # ""

\* the sum of price * quantity over a sequence of OrderItems
RECURSIVE SumItems(_)
SumItems(items) ==
    IF items = <<>> THEN 0
    ELSE Head(items).price * Head(items).quantity + SumItems(Tail(items))

\* C21: the total_paid of an Order that a checkout has just finished creating
\* is the sum of price * quantity over the OrderItems of that Order, also when
\* a price change or a cart request of the same user came in between the
\* Order insert and the OrderItem inserts.
C21_TotalMatchesItems ==
    (last.op = "checkout" /\ last.result = "created") =>
        /\ last.arg \in DOMAIN orders
        /\ orders[last.arg].total_paid = SumItems(OrderItemsOf(last.arg))

\* C22: an order whose payment_status is completado has status procesando and
\* a payment_reference that is not empty.
C22_CompletedIsProcessing ==
    \A o \in DOMAIN orders :
        orders[o].payment_status = "completado" =>
            /\ orders[o].status = "procesando"
            /\ orders[o].payment_reference # ""

\* an order paid without a posted payment_id: the reference is the generated one
C22_Witness ==
    /\ last = Resp("payment_execute", 1, "", "to_success")
    /\ orders[1].payment_status = "completado"
    /\ orders[1].payment_reference \in GeneratedIds

====
